---- MODULE Spec2Model ----
(***************************************************************************)
(* Model of arti-rest's HTTP client (src/src/client.rs): Client::send and  *)
(* the two framing functions it drives, serialize_request and              *)
(* deserialize_response.                                                   *)
(*                                                                         *)
(* A byte string is a sequence of integers 0..255.  The types the code     *)
(* takes from the http crate (Uri, HeaderMap, Version, StatusCode) and the *)
(* parser it takes from the httparse crate (Response::parse) are modelled  *)
(* by what they do at the places client.rs calls them.                     *)
(***************************************************************************)
EXTENDS Integers, Sequences, FiniteSets, TLC

VARIABLES
    pc,         \* position inside Client::send, "idle" between calls
    dir_cache,  \* Client.dir_cache, set by Client::new
    given,      \* the (name, value) pairs the caller handed to the request builder
    req,        \* the http::Request argument of send
    uri,        \* req.uri().clone()
    host,       \* uri.host()
    raw_req,    \* the bytes serialize_request returned
    wire,       \* what the transport's peer put on the wire (structured)
    raw_resp,   \* the bytes tls_send returned
    resp,       \* the Result send returns
    log         \* the stages this call has run, in order

vars == <<pc, dir_cache, given, req, uri, host, raw_req, wire, raw_resp, resp, log>>

\* Option::None, where the value is otherwise a byte string
None == <<-1>>

(***************************************************************************)
(* Bounds of the model.                                                    *)
(***************************************************************************)
\* longest header list a caller gives a request
MaxReqHeaders == 2
\* longest header list drawn freely from RespHeaderPairs
MaxRespHeaders == 3
\* longest generated list of distinct response headers
MaxFill == 17

(***************************************************************************)
(* Byte strings used as inputs.                                            *)
(***************************************************************************)
EOL == <<10>>
CRLF == <<13, 10>>
GET == <<71, 69, 84>>
POST == <<80, 79, 83, 84>>
OKText == <<79, 75>>
HelloText == <<104, 101, 108, 108, 111>>
HiText == <<104, 105>>
HostName == <<72, 111, 115, 116>>
ExampleOrg == <<101, 120, 97, 109, 112, 108, 101, 46, 111, 114, 103>>
C4dtOrg == <<119, 119, 119, 46, 99, 52, 100, 116, 46, 111, 114, 103>>
IndexHtml == <<47, 105, 110, 100, 101, 120, 46, 104, 116, 109, 108>>
HttpsScheme == <<104, 116, 116, 112, 115>>
ContentType == <<67, 111, 110, 116, 101, 110, 116, 45, 84, 121, 112, 101>>
ContentLength == <<67, 111, 110, 116, 101, 110, 116, 45, 76, 101, 110, 103, 116, 104>>
TextPlain == <<116, 101, 120, 116, 47, 112, 108, 97, 105, 110>>

RECURSIVE Concat(_)
Concat(ss) == IF ss = <<>> THEN <<>> ELSE Head(ss) \o Concat(Tail(ss))

RECURSIVE SeqsUpTo(_, _)
SeqsUpTo(S, n) ==
    IF n = 0 THEN {<<>>}
    ELSE LET shorter == SeqsUpTo(S, n - 1)
         IN  shorter \cup {Append(s, x) : s \in {t \in shorter : Len(t) = n - 1}, x \in S}

(***************************************************************************)
(* http::Version and its Debug form, which serialize_request writes.       *)
(***************************************************************************)
VersionDebug(v) ==
    CASE v = "HTTP_09" -> <<72, 84, 84, 80, 47, 48, 46, 57>>
      [] v = "HTTP_10" -> <<72, 84, 84, 80, 47, 49, 46, 48>>
      [] v = "HTTP_11" -> <<72, 84, 84, 80, 47, 49, 46, 49>>
      [] v = "HTTP_2"  -> <<72, 84, 84, 80, 47, 50, 46, 48>>
      [] v = "HTTP_3"  -> <<72, 84, 84, 80, 47, 51, 46, 48>>

(***************************************************************************)
(* http::HeaderName / HeaderValue / HeaderMap.                             *)
(***************************************************************************)
\* HeaderName::from_bytes normalises the name to lower case.
LowerByte(b) == IF b >= 65 /\ b <= 90 THEN b + 32 ELSE b

HeaderNameFrom(name) == [i \in DOMAIN name |-> LowerByte(name[i])]

\* the token bytes a header name may hold
IsHeaderNameToken(b) ==
    \/ b >= 48 /\ b <= 57
    \/ b >= 65 /\ b <= 90
    \/ b >= 97 /\ b <= 122
    \/ b \in {33, 35, 36, 37, 38, 39, 42, 43, 45, 46, 94, 95, 96, 124, 126}

\* the bytes a header value may hold
IsHeaderValueToken(b) == (b >= 32 /\ b # 127) \/ b = 9

ValidHeaderName(name) == name # <<>> /\ \A i \in DOMAIN name : IsHeaderNameToken(name[i])

ValidHeaderValue(value) == \A i \in DOMAIN value : IsHeaderValueToken(value[i])

\* HeaderValue::to_str succeeds on visible ASCII and tab only.
ToStrOk(value) == \A i \in DOMAIN value : (value[i] >= 32 /\ value[i] < 127) \/ value[i] = 9

\* HeaderMap::append: a new name gets a new entry at the end, a known name
\* gets one more value in its existing entry.
HeaderMapAppend(map, name, value) ==
    IF \E i \in DOMAIN map : map[i].name = name
    THEN LET i == CHOOSE j \in DOMAIN map : map[j].name = name
         IN  [map EXCEPT ![i].values = Append(@, value)]
    ELSE Append(map, [name |-> name, values |-> <<value>>])

\* the builder's header(name, value), once per pair, in the order given
RECURSIVE HeaderMapFrom(_, _)
HeaderMapFrom(map, pairs) ==
    IF pairs = <<>> THEN map
    ELSE HeaderMapFrom(HeaderMapAppend(map, HeaderNameFrom(Head(pairs)[1]), Head(pairs)[2]),
                       Tail(pairs))

\* HeaderMap's consuming iterator: (Some(name), value) for the first value of
\* an entry, (None, value) for each further value of the same entry.
RECURSIVE HeaderMapIntoIter(_)
HeaderMapIntoIter(map) ==
    IF map = <<>> THEN <<>>
    ELSE LET e == Head(map)
         IN  [i \in DOMAIN e.values |-> <<IF i = 1 THEN e.name ELSE None, e.values[i]>>]
             \o HeaderMapIntoIter(Tail(map))

\* HeaderMap's borrowing iterator: (name, value), entry by entry.
RECURSIVE HeaderMapIter(_)
HeaderMapIter(map) ==
    IF map = <<>> THEN <<>>
    ELSE LET e == Head(map)
         IN  [i \in DOMAIN e.values |-> <<e.name, e.values[i]>>] \o HeaderMapIter(Tail(map))

(***************************************************************************)
(* http::Uri: scheme, authority, path-and-query.                           *)
(***************************************************************************)
RECURSIVE LastIndexOf(_, _, _)
LastIndexOf(s, b, i) ==
    IF i = 0 THEN 0 ELSE IF s[i] = b THEN i ELSE LastIndexOf(s, b, i - 1)

RECURSIVE FirstIndexOf(_, _, _)
FirstIndexOf(s, b, i) ==
    IF i > Len(s) THEN 0 ELSE IF s[i] = b THEN i ELSE FirstIndexOf(s, b, i + 1)

\* Authority::host: what follows the last '@', up to the first ':' (or the
\* bracketed literal).
AuthorityHost(auth) ==
    LET host_port == SubSeq(auth, LastIndexOf(auth, 64, Len(auth)) + 1, Len(auth))
    IN  IF host_port[1] = 91
        THEN SubSeq(host_port, 1, FirstIndexOf(host_port, 93, 1))
        ELSE LET c == FirstIndexOf(host_port, 58, 1)
             IN  IF c = 0 THEN host_port ELSE SubSeq(host_port, 1, c - 1)

\* mutant: an absent host taken for an empty one
UriHost_OrEmpty(u) == IF u.authority = <<>> THEN <<>> ELSE AuthorityHost(u.authority)

\* Uri::host
UriHost(u) == IF u.authority = <<>> THEN None ELSE AuthorityHost(u.authority)

\* Uri::path_and_query: None when there is neither a scheme nor a path
UriPathAndQuery(u) ==
    IF u.scheme # <<>> \/ u.path_and_query # <<>> THEN u.path_and_query ELSE None

\* Display of PathAndQuery
PathAndQueryDisplay(data) ==
    IF data = <<>> THEN <<47>>
    ELSE IF data[1] \in {47, 42} THEN data
    ELSE <<47>> \o data

(***************************************************************************)
(* The requests a caller builds.                                           *)
(***************************************************************************)
Methods == {GET, POST}

ReqVersions == {"HTTP_10", "HTTP_11"}

Uris ==
    { [scheme |-> HttpsScheme, authority |-> C4dtOrg, path_and_query |-> <<>>],
      [scheme |-> HttpsScheme, authority |-> ExampleOrg, path_and_query |-> IndexHtml],
      [scheme |-> <<>>, authority |-> <<>>, path_and_query |-> IndexHtml],
      [scheme |-> <<>>, authority |-> ExampleOrg \o <<58, 56, 48>>, path_and_query |-> <<>>],
      [scheme |-> HttpsScheme, authority |-> <<117, 64>> \o ExampleOrg,
       path_and_query |-> <<63, 113>>] }

ReqHeaderPairs ==
    { <<HostName, ExampleOrg>>,
      <<<<97, 99, 99, 101, 112, 116>>, <<97>>>>,
      <<<<65, 99, 99, 101, 112, 116>>, <<98>>>>,
      <<<<120>>, <<233>>>> }

ReqBodies == {<<>>, HiText, <<195, 169>>, <<255>>}

\* Request::builder().method(..).uri(..).version(..).header(..)*.body(..)
BuildRequest(method, target, version, pairs, body) ==
    [method |-> method, uri |-> target, version |-> version,
     headers |-> HeaderMapFrom(<<>>, pairs), body |-> body]

NoUri == [scheme |-> <<>>, authority |-> <<>>, path_and_query |-> <<>>]

NoRequest == BuildRequest(<<>>, NoUri, "HTTP_11", <<>>, <<>>)

(***************************************************************************)
(* Results.                                                                *)
(***************************************************************************)
Err(stage, msg) == [ok |-> FALSE, stage |-> stage, msg |-> msg]

(***************************************************************************)
(* serialize_request                                                       *)
(***************************************************************************)
\* mutant: the version written first
RequestLine_VersionFirst(method, pq, version) ==
    VersionDebug(version) \o <<32>> \o PathAndQueryDisplay(pq) \o <<32>> \o method \o EOL

\* the request line: "{} {} {:?}{}" of method, path-and-query, version, EOL
RequestLine(method, pq, version) ==
    method \o <<32>> \o PathAndQueryDisplay(pq) \o <<32>> \o VersionDebug(version) \o EOL

\* mutant: no space after the colon
HeaderLine_NoSpace(name, value) == name \o <<58>> \o value \o EOL

\* one header: "{}: {}{}" of name, value, EOL
HeaderLine(name, value) == name \o <<58, 32>> \o value \o EOL

\* the header loop: the bytes written, or the first failure
RECURSIVE WriteHeaders(_, _)
WriteHeaders(items, ret) ==
    IF items = <<>> THEN [ok |-> TRUE, ret |-> ret]
    ELSE LET key == Head(items)[1]
             value == Head(items)[2]
         IN  IF key = None THEN Err("encode", "missing header name")
             ELSE IF ~ToStrOk(value) THEN Err("encode", "serialize header value as string")
             ELSE WriteHeaders(Tail(items), ret \o HeaderLine(key, value))

serialize_request(r) ==
    LET pq == UriPathAndQuery(r.uri)
    IN  IF pq = None THEN Err("encode", "uri without path or query")
        ELSE LET hs == WriteHeaders(HeaderMapIntoIter(r.headers),
                                    RequestLine(r.method, pq, r.version))
             IN  IF ~hs.ok THEN hs
                 ELSE [ok |-> TRUE, ret |-> hs.ret \o EOL \o r.body]

(***************************************************************************)
(* httparse::Response::parse, as deserialize_response calls it: default    *)
(* configuration, a header array of MAX_HEADERS slots.  Positions are      *)
(* 1-based indexes of the next unread byte.                                *)
(***************************************************************************)
MAX_HEADERS == 16

\* let mut headers = [httparse::EMPTY_HEADER; MAX_HEADERS]
EMPTY_HEADER == [name |-> <<>>, value |-> <<>>]

\* mutant: one slot more
headers_OneMore == [i \in 1..(MAX_HEADERS + 1) |-> EMPTY_HEADER]

headers == [i \in 1..MAX_HEADERS |-> EMPTY_HEADER]

Partial == [st |-> "Partial"]

ParseError(e) == [st |-> "Error", err |-> e]

\* skip_empty_lines
RECURSIVE SkipEmptyLines(_, _)
SkipEmptyLines(buf, i) ==
    IF i > Len(buf) THEN Partial
    ELSE IF buf[i] = 13
         THEN IF i + 1 > Len(buf) THEN Partial
              ELSE IF buf[i + 1] = 10 THEN SkipEmptyLines(buf, i + 2)
              ELSE ParseError("NewLine")
    ELSE IF buf[i] = 10 THEN SkipEmptyLines(buf, i + 1)
    ELSE [st |-> "Complete", pos |-> i]

\* parse_version: the eight bytes HTTP/1.0 or HTTP/1.1; on a shorter rest,
\* an error at the first byte that cannot start one of them
ParseVersion(buf, i) ==
    LET prefix == <<72, 84, 84, 80, 47, 49, 46>>
        avail == Len(buf) - i + 1
    IN  IF avail >= 8
        THEN LET eight == SubSeq(buf, i, i + 7)
             IN  IF eight = prefix \o <<48>> THEN [st |-> "Complete", pos |-> i + 8, version |-> 0]
                 ELSE IF eight = prefix \o <<49>>
                      THEN [st |-> "Complete", pos |-> i + 8, version |-> 1]
                 ELSE ParseError("Version")
        ELSE LET n == IF avail < 7 THEN avail ELSE 7
             IN  IF SubSeq(buf, i, i + n - 1) = SubSeq(prefix, 1, n) THEN Partial
                 ELSE ParseError("Version")

IsDigit(b) == b >= 48 /\ b <= 57

\* parse_code: exactly three digits
ParseCode(buf, i) ==
    IF i > Len(buf) THEN Partial
    ELSE IF ~IsDigit(buf[i]) THEN ParseError("Status")
    ELSE IF i + 1 > Len(buf) THEN Partial
    ELSE IF ~IsDigit(buf[i + 1]) THEN ParseError("Status")
    ELSE IF i + 2 > Len(buf) THEN Partial
    ELSE IF ~IsDigit(buf[i + 2]) THEN ParseError("Status")
    ELSE [st |-> "Complete", pos |-> i + 3,
          code |-> (buf[i] - 48) * 100 + (buf[i + 1] - 48) * 10 + (buf[i + 2] - 48)]

IsReasonByte(b) == b = 9 \/ b = 32 \/ (b >= 33 /\ b <= 126) \/ b >= 128

\* parse_reason: up to and including the line end
RECURSIVE ParseReason(_, _)
ParseReason(buf, i) ==
    IF i > Len(buf) THEN Partial
    ELSE IF buf[i] = 13
         THEN IF i + 1 > Len(buf) THEN Partial
              ELSE IF buf[i + 1] = 10 THEN [st |-> "Complete", pos |-> i + 2]
              ELSE ParseError("Status")
    ELSE IF buf[i] = 10 THEN [st |-> "Complete", pos |-> i + 1]
    ELSE IF ~IsReasonByte(buf[i]) THEN ParseError("Status")
    ELSE ParseReason(buf, i + 1)

\* what follows the status code: a space and a reason phrase, or the line end
ParseAfterCode(buf, i) ==
    IF i > Len(buf) THEN Partial
    ELSE IF buf[i] = 32 THEN ParseReason(buf, i + 1)
    ELSE IF buf[i] = 13
         THEN IF i + 1 > Len(buf) THEN Partial
              ELSE IF buf[i + 1] = 10 THEN [st |-> "Complete", pos |-> i + 2]
              ELSE ParseError("Status")
    ELSE IF buf[i] = 10 THEN [st |-> "Complete", pos |-> i + 1]
    ELSE ParseError("Status")

\* the first position at or after i that holds no header-name token
RECURSIVE NameEnd(_, _)
NameEnd(buf, i) ==
    IF i > Len(buf) THEN i
    ELSE IF IsHeaderNameToken(buf[i]) THEN NameEnd(buf, i + 1)
    ELSE i

\* the first position at or after i that holds neither a space nor a tab
RECURSIVE SkipBlanks(_, _)
SkipBlanks(buf, i) ==
    IF i > Len(buf) THEN i
    ELSE IF buf[i] \in {32, 9} THEN SkipBlanks(buf, i + 1)
    ELSE i

\* the first position at or after i that holds no header-value byte
RECURSIVE ValueEnd(_, _)
ValueEnd(buf, i) ==
    IF i > Len(buf) THEN i
    ELSE IF IsHeaderValueToken(buf[i]) THEN ValueEnd(buf, i + 1)
    ELSE i

\* a value without its trailing spaces and tabs
RECURSIVE TrimEnd(_)
TrimEnd(v) ==
    IF v = <<>> THEN v
    ELSE IF v[Len(v)] \in {32, 9} THEN TrimEnd(SubSeq(v, 1, Len(v) - 1))
    ELSE v

\* one header line starting at i (its first byte is a name token):
\* name, ':', blanks, value, line end
ParseHeaderLine(buf, i) ==
    LET c == NameEnd(buf, i)
    IN  IF c > Len(buf) THEN Partial
        ELSE IF buf[c] # 58 THEN ParseError("HeaderName")
        ELSE LET v == SkipBlanks(buf, c + 1)
                 e == ValueEnd(buf, v)
             IN  IF e > Len(buf) THEN Partial
                 ELSE IF buf[e] = 13
                      THEN IF e + 1 > Len(buf) THEN Partial
                           ELSE IF buf[e + 1] = 10
                                THEN [st |-> "Complete", pos |-> e + 2,
                                      name |-> SubSeq(buf, i, c - 1),
                                      value |-> TrimEnd(SubSeq(buf, v, e - 1))]
                           ELSE ParseError("HeaderValue")
                 ELSE IF buf[e] = 10
                      THEN [st |-> "Complete", pos |-> e + 1,
                            name |-> SubSeq(buf, i, c - 1),
                            value |-> TrimEnd(SubSeq(buf, v, e - 1))]
                 ELSE ParseError("HeaderValue")

\* the header loop: an empty line ends the head; a header beyond the last
\* free slot ends the parse with TooManyHeaders
RECURSIVE ParseHeaders(_, _, _, _)
\* mutant: the end of the input taken for the end of the head
ParseHeaders_EofEndsHead(buf, i, slots, acc) ==
    IF i > Len(buf) THEN [st |-> "Complete", pos |-> i, headers |-> acc]
    ELSE IF buf[i] = 13
         THEN IF i + 1 > Len(buf) THEN Partial
              ELSE IF buf[i + 1] = 10 THEN [st |-> "Complete", pos |-> i + 2, headers |-> acc]
              ELSE ParseError("NewLine")
    ELSE IF buf[i] = 10 THEN [st |-> "Complete", pos |-> i + 1, headers |-> acc]
    ELSE IF ~IsHeaderNameToken(buf[i]) THEN ParseError("HeaderName")
    ELSE IF Len(acc) >= slots THEN ParseError("TooManyHeaders")
    ELSE LET h == ParseHeaderLine(buf, i)
         IN  IF h.st # "Complete" THEN h
             ELSE ParseHeaders(buf, h.pos, slots,
                               Append(acc, [name |-> h.name, value |-> h.value]))

ParseHeaders(buf, i, slots, acc) ==
    IF i > Len(buf) THEN Partial
    ELSE IF buf[i] = 13
         THEN IF i + 1 > Len(buf) THEN Partial
              ELSE IF buf[i + 1] = 10 THEN [st |-> "Complete", pos |-> i + 2, headers |-> acc]
              ELSE ParseError("NewLine")
    ELSE IF buf[i] = 10 THEN [st |-> "Complete", pos |-> i + 1, headers |-> acc]
    ELSE IF ~IsHeaderNameToken(buf[i]) THEN ParseError("HeaderName")
    ELSE IF Len(acc) >= slots THEN ParseError("TooManyHeaders")
    ELSE LET h == ParseHeaderLine(buf, i)
         IN  IF h.st # "Complete" THEN h
             ELSE ParseHeaders(buf, h.pos, slots,
                               Append(acc, [name |-> h.name, value |-> h.value]))

\* Response::parse: Complete carries the number of bytes consumed
ResponseParse(buf, slots) ==
    LET s == SkipEmptyLines(buf, 1)
    IN  IF s.st # "Complete" THEN s
        ELSE LET v == ParseVersion(buf, s.pos)
        IN  IF v.st # "Complete" THEN v
        ELSE IF v.pos > Len(buf) THEN Partial
        ELSE IF buf[v.pos] # 32 THEN ParseError("Version")
        ELSE LET c == ParseCode(buf, v.pos + 1)
        IN  IF c.st # "Complete" THEN c
        ELSE LET r == ParseAfterCode(buf, c.pos)
        IN  IF r.st # "Complete" THEN r
        ELSE LET h == ParseHeaders(buf, r.pos, slots, <<>>)
        IN  IF h.st # "Complete" THEN h
        ELSE [st |-> "Complete", len |-> h.pos - 1, version |-> v.version,
              code |-> c.code, headers |-> h.headers]

(***************************************************************************)
(* deserialize_response                                                    *)
(***************************************************************************)
\* mutant: no lower limit
StatusCodeOk_NoLow(code) == code < 1000

\* StatusCode::from_u16, as Builder::status applies it
StatusCodeOk(code) == code >= 100 /\ code < 1000

\* Builder::header for every parsed header, in parse order; a builder that
\* already holds an error keeps it
RECURSIVE BuilderHeaders(_, _)
BuilderHeaders(b, hs) ==
    IF hs = <<>> THEN b
    ELSE LET h == Head(hs)
         IN  BuilderHeaders(
                 IF ~b.ok THEN b
                 ELSE IF ~ValidHeaderName(h.name) THEN [ok |-> FALSE, headers |-> <<>>]
                 ELSE IF ~ValidHeaderValue(h.value) THEN [ok |-> FALSE, headers |-> <<>>]
                 ELSE [ok |-> TRUE,
                       headers |-> HeaderMapAppend(b.headers, HeaderNameFrom(h.name), h.value)],
                 Tail(hs))

\* mutant: the two versions exchanged
VersionOf_Swapped(v) == IF v = 0 THEN "HTTP_11" ELSE "HTTP_10"

\* the version indicator of the parse as an http::Version
VersionOf(v) == IF v = 0 THEN "HTTP_10" ELSE "HTTP_11"

\* mutant: the split one byte early
SplitOff_OneEarly(raw, at) == SubSeq(raw, at, Len(raw))

\* raw_resp.split_off(at): the bytes from offset at to the end
SplitOff(raw, at) == SubSeq(raw, at + 1, Len(raw))

deserialize_response(raw) ==
    LET parsed == ResponseParse(raw, Len(headers))
    IN  IF parsed.st = "Error" THEN Err("decode", parsed.err)
        ELSE IF parsed.st = "Partial" THEN Err("decode", "unfinished response")
        ELSE LET b == BuilderHeaders([ok |-> StatusCodeOk(parsed.code), headers |-> <<>>],
                                     parsed.headers)
             IN  IF ~b.ok THEN Err("decode", "create response")
                 ELSE [ok |-> TRUE, status |-> parsed.code,
                       version |-> VersionOf(parsed.version),
                       headers |-> b.headers, body |-> SplitOff(raw, parsed.len)]

(***************************************************************************)
(* String::from_utf8                                                       *)
(***************************************************************************)
InRange(s, i, lo, hi) == i <= Len(s) /\ s[i] >= lo /\ s[i] <= hi

RECURSIVE Utf8Valid(_, _)
Utf8Valid(s, i) ==
    IF i > Len(s) THEN TRUE
    ELSE LET b == s[i]
         IN  IF b < 128 THEN Utf8Valid(s, i + 1)
             ELSE IF b >= 194 /\ b <= 223
                  THEN InRange(s, i + 1, 128, 191) /\ Utf8Valid(s, i + 2)
             ELSE IF b >= 224 /\ b <= 239
                  THEN /\ InRange(s, i + 1, IF b = 224 THEN 160 ELSE 128,
                                  IF b = 237 THEN 159 ELSE 191)
                       /\ InRange(s, i + 2, 128, 191)
                       /\ Utf8Valid(s, i + 3)
             ELSE IF b >= 240 /\ b <= 244
                  THEN /\ InRange(s, i + 1, IF b = 240 THEN 144 ELSE 128,
                                  IF b = 244 THEN 143 ELSE 191)
                       /\ InRange(s, i + 2, 128, 191)
                       /\ InRange(s, i + 3, 128, 191)
                       /\ Utf8Valid(s, i + 4)
             ELSE FALSE

(***************************************************************************)
(* What tls_send may return: the responses a peer may put on the wire.     *)
(* A response is a status line, header lines, the empty line and a body,   *)
(* with the last `drop` bytes missing.                                     *)
(***************************************************************************)
RespVersions ==
    { <<72, 84, 84, 80, 47, 49, 46, 48>>,
      <<72, 84, 84, 80, 47, 49, 46, 49>>,
      <<72, 84, 84, 80, 47, 50, 46, 48>> }

RespCodes ==
    { <<48, 57, 57>>, <<49, 48, 48>>, <<50, 48, 48>>, <<53, 57, 56>>,
      <<53, 57, 57>>, <<54, 48, 48>>, <<57, 57, 57>> }

RespReasons == {<<>>, <<32>> \o OKText}

RespHeaderPairs ==
    { <<<<97>>, <<49>>>>,
      <<ContentLength, <<50>>>>,
      <<<<65>>, <<51>>>>,
      <<<<98, 32, 100>>, <<52>>>> }

\* k headers with k different names
Fill(k) == [i \in 1..k |-> <<<<104, 96 + i>>, <<48 + (i % 10)>>>>]

RespHeaderLists ==
    SeqsUpTo(RespHeaderPairs, MaxRespHeaders) \cup {Fill(k) : k \in 0..MaxFill}

Wire(lead, version, code, reason, hdrs, eol, term, body, drop) ==
    [kind |-> "resp", lead |-> lead, version |-> version, code |-> code,
     reason |-> reason, hdrs |-> hdrs, eol |-> eol, term |-> term, body |-> body,
     drop |-> drop, sent |-> NoRequest]

NoWire == [Wire(<<>>, <<>>, <<>>, <<>>, <<>>, <<>>, FALSE, <<>>, 0) EXCEPT !.kind = "none"]

\* the identity transport: the peer sends back the request it was sent
EchoWire(r) == [NoWire EXCEPT !.kind = "echo", !.sent = r]

\* status line and header lines, each ended by the response's line end
WireHead(w) ==
    w.lead \o w.version \o <<32>> \o w.code \o w.reason \o w.eol
    \o Concat([i \in DOMAIN w.hdrs |-> w.hdrs[i][1] \o <<58, 32>> \o w.hdrs[i][2] \o w.eol])

WireFull(w) == WireHead(w) \o (IF w.term THEN w.eol ELSE <<>>) \o w.body

Render(w) == SubSeq(WireFull(w), 1, Len(WireFull(w)) - w.drop)

Scenario(eol) ==
    Wire(<<>>, <<72, 84, 84, 80, 47, 49, 46, 49>>, <<50, 48, 48>>, <<32>> \o OKText,
         <<<<ContentType, TextPlain>>>>, eol, TRUE, HelloText, 0)

RespWires ==
    \* every status line, with no header or one
    { Wire(lead, v, c, r, hs, eol, TRUE, HelloText, 0) :
        lead \in {<<>>, EOL}, v \in RespVersions, c \in RespCodes, r \in RespReasons,
        hs \in {<<>>, <<<<ContentType, TextPlain>>>>}, eol \in {EOL, CRLF} }
    \cup
    \* every header list, with and without the empty line
    { [Scenario(eol) EXCEPT !.hdrs = hs, !.term = term, !.body = body] :
        hs \in RespHeaderLists, eol \in {EOL, CRLF}, term \in BOOLEAN,
        body \in {<<>>, HelloText, EOL \o EOL \o HiText} }
    \cup
    \* every proper prefix of one response
    { [Scenario(eol) EXCEPT !.drop = d] :
        eol \in {EOL, CRLF}, d \in 1..Len(WireFull(Scenario(EOL))) }

(***************************************************************************)
(* Client                                                                  *)
(***************************************************************************)
NoResult == Err("none", "none")

\* Client::new
Init ==
    /\ pc = "idle"
    /\ dir_cache = [tmp_dir |-> None, nodes |-> None, relays |-> None]
    /\ given = <<>>
    /\ req = NoRequest
    /\ uri = NoUri
    /\ host = None
    /\ raw_req = <<>>
    /\ wire = NoWire
    /\ raw_resp = <<>>
    /\ resp = NoResult
    /\ log = <<>>

\* a caller builds a request and calls send
Call(method, target, version, pairs, body) ==
    /\ pc = "idle"
    /\ pc' = "host"
    /\ given' = pairs
    /\ req' = BuildRequest(method, target, version, pairs, body)
    /\ UNCHANGED <<dir_cache, uri, host, raw_req, wire, raw_resp, resp, log>>

\* let uri = req.uri().clone();
\* let host = uri.host().context("no host found")?
ExtractHost ==
    /\ pc = "host"
    /\ log' = Append(log, "host")
    /\ uri' = req.uri
    /\ host' = UriHost(uri')
    /\ IF host' = None
       THEN pc' = "done" /\ resp' = Err("host", "no host found")
       ELSE pc' = "serialize" /\ resp' = resp
    /\ UNCHANGED <<dir_cache, given, req, raw_req, wire, raw_resp>>

\* let raw_req = serialize_request(req).context("serialize request")?
Serialize ==
    /\ pc = "serialize"
    /\ log' = Append(log, "encode")
    /\ LET r == serialize_request(req)
       IN  IF r.ok
           THEN pc' = "utf8" /\ raw_req' = r.ret /\ resp' = resp
           ELSE pc' = "done" /\ raw_req' = raw_req /\ resp' = r
    /\ UNCHANGED <<dir_cache, given, req, uri, host, wire, raw_resp>>

\* mutant: a lossy conversion, which never fails
ToUtf8_Lossy ==
    /\ pc = "utf8"
    /\ log' = Append(log, "utf8")
    /\ pc' = "tls_send"
    /\ UNCHANGED <<dir_cache, given, req, uri, host, raw_req, wire, raw_resp, resp>>

\* String::from_utf8(raw_req).context("encode serialized as utf-8")?
ToUtf8 ==
    /\ pc = "utf8"
    /\ log' = Append(log, "utf8")
    /\ IF Utf8Valid(raw_req, 1)
       THEN pc' = "tls_send" /\ resp' = resp
       ELSE pc' = "done" /\ resp' = Err("utf8", "encode serialized as utf-8")
    /\ UNCHANGED <<dir_cache, given, req, uri, host, raw_req, wire, raw_resp>>

\* tls_send(host, &text, &self.dir_cache)?.into_bytes(): the transport
\* fails, or returns what its peer sent.  The request and its text were
\* moved into the calls above and are gone when tls_send returns.
TlsSend ==
    /\ pc = "tls_send"
    /\ log' = Append(log, "transmit")
    /\ req' = NoRequest
    /\ given' = <<>>
    /\ raw_req' = <<>>
    /\ \/ /\ pc' = "done"
          /\ resp' = Err("transmit", "tls_send")
          /\ UNCHANGED <<wire, raw_resp>>
       \/ /\ pc' = "deserialize"
          /\ \E w \in RespWires : wire' = w /\ raw_resp' = Render(w)
          /\ resp' = resp
       \/ /\ pc' = "deserialize"
          /\ wire' = EchoWire(req)
          /\ raw_resp' = raw_req
          /\ resp' = resp
    /\ UNCHANGED <<dir_cache, uri, host>>

\* let resp = deserialize_response(raw_resp)
Deserialize ==
    /\ pc = "deserialize"
    /\ log' = Append(log, "decode")
    /\ resp' = deserialize_response(raw_resp)
    /\ pc' = "done"
    /\ UNCHANGED <<dir_cache, given, req, uri, host, raw_req, wire, raw_resp>>

\* send returns resp; nothing of the call outlives it
Return ==
    /\ pc = "done"
    /\ pc' = "idle"
    /\ given' = <<>>
    /\ req' = NoRequest
    /\ uri' = NoUri
    /\ host' = None
    /\ raw_req' = <<>>
    /\ wire' = NoWire
    /\ raw_resp' = <<>>
    /\ resp' = NoResult
    /\ log' = <<>>
    /\ UNCHANGED dir_cache

Next ==
    \/ \E method \in Methods, target \in Uris, version \in ReqVersions,
          pairs \in SeqsUpTo(ReqHeaderPairs, MaxReqHeaders), body \in ReqBodies :
          Call(method, target, version, pairs, body)
    \/ ExtractHost
    \/ Serialize
    \/ ToUtf8
    \/ TlsSend
    \/ Deserialize
    \/ Return

Spec == Init /\ [][Next]_vars

(***************************************************************************)
(* Properties.  A call has returned when pc = "done"; resp is then what    *)
(* send returns, raw_resp what the transport returned and wire what the    *)
(* peer meant by it.                                                       *)
(***************************************************************************)
Min(S) == CHOOSE x \in S : \A y \in S : x <= y

\* the end of the first empty line after the first byte that is not a line
\* end, 0 when the bytes hold none
HeadEnd(buf) ==
    LET starts == {i \in DOMAIN buf : buf[i] \notin {10, 13}}
        ends == {e \in DOMAIN buf :
                    /\ starts # {}
                    /\ e > Min(starts)
                    /\ buf[e] = 10
                    /\ \/ buf[e - 1] = 10
                       \/ e > 2 /\ buf[e - 1] = 13 /\ buf[e - 2] = 10}
    IN  IF ends = {} THEN 0 ELSE Min(ends)

Decoded == pc = "done" /\ wire.kind \in {"resp", "echo"}

CodeOf(w) == (w.code[1] - 48) * 100 + (w.code[2] - 48) * 10 + (w.code[3] - 48)

\* a complete response whose status line and header lines are well formed
WellFormed(w) ==
    /\ w.kind = "resp"
    /\ w.drop = 0
    /\ w.term
    /\ w.version \in {<<72, 84, 84, 80, 47, 49, 46, 48>>, <<72, 84, 84, 80, 47, 49, 46, 49>>}
    /\ \A i \in DOMAIN w.hdrs : ValidHeaderName(w.hdrs[i][1]) /\ ValidHeaderValue(w.hdrs[i][2])

Lower(name) == [i \in DOMAIN name |-> IF name[i] \in 65..90 THEN name[i] + 32 ELSE name[i]]

LowerNames(pairs) == [i \in DOMAIN pairs |-> <<Lower(pairs[i][1]), pairs[i][2]>>]

\* the pairs with equal names brought together: names in the order of their
\* first pair, the pairs of one name in their original order
RECURSIVE Grouped(_)
Grouped(pairs) ==
    IF pairs = <<>> THEN <<>>
    ELSE LET Same(p) == p[1] = Head(pairs)[1]
             Other(p) == p[1] # Head(pairs)[1]
         IN  SelectSeq(pairs, Same) \o Grouped(SelectSeq(pairs, Other))

MappedVersion(w) == IF w.version[8] = 48 THEN "HTTP_10" ELSE "HTTP_11"

\* C1: an input that holds no empty line after its status line (a status
\* line and header lines only, or any shorter prefix) is never decoded into
\* a response: the call returns a decoding error.
C1_TruncatedFails ==
    (Decoded /\ HeadEnd(raw_resp) = 0) => (~resp.ok /\ resp.stage = "decode")

\* HTTP/1.1 200 OK, Content-Type: text/plain, and no empty line
C1_Witness ==
    /\ pc = "done"
    /\ wire.kind = "resp"
    /\ raw_resp = WireHead(Scenario(EOL))
    /\ resp = Err("decode", "unfinished response")

\* C2 as stated: every complete, well-formed response with a status code in
\* [100,599), HTTP/1.0 or HTTP/1.1 and N headers decodes to that code, the
\* mapped version and the N (name, value) pairs in their original order.
C2_AsStated ==
    (pc = "done" /\ WellFormed(wire) /\ CodeOf(wire) >= 100 /\ CodeOf(wire) < 599)
        => /\ resp.ok
           /\ resp.status = CodeOf(wire)
           /\ resp.version = MappedVersion(wire)
           /\ HeaderMapIter(resp.headers) = LowerNames(wire.hdrs)

\* C2 amended: with at most MAX_HEADERS headers, the response decodes to that
\* code, the mapped version and the N pairs, names in lower case, the pairs
\* of one name together at the place of its first pair.
C2_Reconstructs ==
    (pc = "done" /\ WellFormed(wire) /\ CodeOf(wire) >= 100 /\ CodeOf(wire) < 599
       /\ Len(wire.hdrs) <= MAX_HEADERS)
        => /\ resp.ok
           /\ resp.status = CodeOf(wire)
           /\ resp.version = MappedVersion(wire)
           /\ HeaderMapIter(resp.headers) = Grouped(LowerNames(wire.hdrs))

C2_Witness ==
    /\ pc = "done"
    /\ WellFormed(wire)
    /\ wire.hdrs = <<<<<<97>>, <<49>>>>, <<ContentLength, <<50>>>>, <<<<65>>, <<51>>>>>>
    /\ resp.ok
    /\ resp.version = "HTTP_11"
    /\ HeaderMapIter(resp.headers) =
           <<<<<<97>>, <<49>>>>, <<<<97>>, <<51>>>>, <<Lower(ContentLength), <<50>>>>>>

\* C3: the body of a decoded response is the input from the end of the first
\* empty line to the end of the input, whatever the headers say.
C3_BodyIsRest ==
    (Decoded /\ resp.ok)
        => /\ HeadEnd(raw_resp) > 0
           /\ resp.body = SubSeq(raw_resp, HeadEnd(raw_resp) + 1, Len(raw_resp))
           /\ SubSeq(raw_resp, 1, HeadEnd(raw_resp)) \o resp.body = raw_resp

C3_Witness ==
    /\ pc = "done"
    /\ resp.ok
    /\ \E i \in DOMAIN wire.hdrs : wire.hdrs[i] = <<ContentLength, <<50>>>>
    /\ resp.body = HelloText

\* the bytes the request line, the given header pairs and the body make up
Framed(r, pairs) ==
    r.method \o <<32>> \o PathAndQueryDisplay(r.uri.path_and_query) \o <<32>>
    \o VersionDebug(r.version) \o <<10>>
    \o Concat([i \in DOMAIN pairs |-> pairs[i][1] \o <<58, 32>> \o pairs[i][2] \o <<10>>])
    \o <<10>> \o r.body

Serialized == pc = "utf8"

\* C4 as stated: the output of an accepted request is the request line, one
\* line per header with the name as the caller gave it, an empty line and
\* the body.
C4_AsStated == Serialized => raw_req = Framed(req, given)

\* C4 amended: the same, with every header name in lower case, as the
\* request's header map holds it.
C4_Framing == Serialized => raw_req = Framed(req, LowerNames(given))

\* GET /index.html HTTP/1.1, Host: example.org, no body
C4_Witness ==
    /\ Serialized
    /\ req.method = GET /\ req.uri.path_and_query = IndexHtml /\ req.version = "HTTP_11"
    /\ given = <<<<HostName, ExampleOrg>>>>
    /\ req.body = <<>>
    /\ raw_req = <<71, 69, 84, 32>> \o IndexHtml \o <<32, 72, 84, 84, 80, 47, 49, 46, 49, 10>>
                 \o <<104, 111, 115, 116, 58, 32>> \o ExampleOrg \o <<10, 10>>

\* C5: a call whose URI has no host returns the missing-host error after the
\* host stage alone: nothing was encoded, nothing was sent.
C5_MissingHostFirst ==
    (pc = "done" /\ uri.authority = <<>>)
        => /\ resp = Err("host", "no host found")
           /\ log = <<"host">>
           /\ raw_req = <<>>
           /\ wire.kind = "none"

C5_Witness ==
    /\ pc = "done"
    /\ uri.authority = <<>>
    /\ ~serialize_request(req).ok
    /\ resp.stage = "host"

\* C6 as stated: what the identity transport returns decodes, and the result
\* has the version, the headers and the body of the request.
C6_AsStated ==
    (pc = "done" /\ wire.kind = "echo")
        => /\ resp.ok
           /\ resp.version = wire.sent.version
           /\ resp.headers = wire.sent.headers
           /\ resp.body = wire.sent.body

\* C6 amended: what the identity transport returns never decodes: an encoded
\* request starts with its method, and the decoder fails at the version.
C6_EchoFails ==
    (pc = "done" /\ wire.kind = "echo") => resp = Err("decode", "Version")

C6_Witness ==
    /\ pc = "done"
    /\ wire.kind = "echo"
    /\ wire.sent.headers # <<>>
    /\ ~resp.ok

Stages == <<"host", "encode", "utf8", "transmit", "decode">>

\* C7: the stages of a call run in the fixed order, each at most once; the
\* transport is reached only with a host, an encoded request and valid
\* UTF-8; the decoder only with what the transport returned; a call that
\* ended holds a response after all five stages or the error of the last
\* stage it ran.
C7_Pipeline ==
    /\ Len(log) <= Len(Stages) /\ log = SubSeq(Stages, 1, Len(log))
    /\ pc = "tls_send" =>
           /\ host # None
           /\ serialize_request(req).ok /\ serialize_request(req).ret = raw_req
           /\ Utf8Valid(raw_req, 1)
    /\ pc = "deserialize" => wire.kind \in {"resp", "echo"}
    /\ pc # "done" => resp = NoResult
    /\ pc = "done" =>
           /\ resp # NoResult
           /\ resp.ok => log = Stages
           /\ ~resp.ok => resp.stage = log[Len(log)]

C7_Witness ==
    /\ pc = "done"
    /\ log = Stages
    /\ resp.ok

HasDuplicate(pairs) ==
    \E i, j \in DOMAIN pairs : i # j /\ Lower(pairs[i][1]) = Lower(pairs[j][1])

\* C8 as stated: a request with two or more headers of one name (and a
\* target, and values that are strings) is encoded, one line per pair, in
\* the order given.
C8_DuplicatesKept ==
    (/\ pc \in {"utf8", "done"}
     /\ log = <<"host", "encode">>
     /\ HasDuplicate(given)
     /\ UriPathAndQuery(req.uri) # None
     /\ \A i \in DOMAIN given : ToStrOk(given[i][2]))
        => pc = "utf8" /\ raw_req = Framed(req, LowerNames(given))

\* C9 as stated: a well-formed response with more than MAX_HEADERS headers
\* decodes to a response that holds the first MAX_HEADERS of them.
C9_AsStated ==
    (pc = "done" /\ WellFormed(wire) /\ CodeOf(wire) = 200 /\ Len(wire.hdrs) > MAX_HEADERS)
        => /\ resp.ok
           /\ HeaderMapIter(resp.headers)
                  = Grouped(LowerNames(SubSeq(wire.hdrs, 1, MAX_HEADERS)))

\* C9 amended: a well-formed response with more than MAX_HEADERS headers is
\* rejected with a decoding error; a decoded response holds at most
\* MAX_HEADERS headers.
C9_CapFails ==
    /\ (pc = "done" /\ WellFormed(wire) /\ Len(wire.hdrs) > MAX_HEADERS)
           => resp = Err("decode", "TooManyHeaders")
    /\ (Decoded /\ resp.ok) => Len(HeaderMapIter(resp.headers)) <= MAX_HEADERS

C9_Witness ==
    /\ pc = "done"
    /\ WellFormed(wire)
    /\ Len(wire.hdrs) = MAX_HEADERS + 1
    /\ resp = Err("decode", "TooManyHeaders")

\* C10 as stated: a decoded response has a status code from 100 to 599.
C10_AsStated == (Decoded /\ resp.ok) => (resp.status >= 100 /\ resp.status <= 599)

\* C10 amended: a decoded response has a status code from 100 to 999; a
\* three-digit code below 100 is rejected with a decoding error.
C10_StatusRange ==
    /\ (Decoded /\ resp.ok) => (resp.status >= 100 /\ resp.status <= 999)
    /\ (pc = "done" /\ wire.kind = "resp" /\ wire.drop = 0 /\ CodeOf(wire) < 100)
           => (~resp.ok /\ resp.stage = "decode")

C10_Witness ==
    /\ pc = "done"
    /\ WellFormed(wire)
    /\ wire.code = <<57, 57, 57>>
    /\ resp.ok
    /\ resp.status = 999

====
